---------------------------- MODULE Spec2Model ----------------------------
(* camera-stream, macOS backend: the stream state machine of              *)
(* src/platform/macos/stream.rs (MacosCameraStream::new / start / stop /  *)
(* Drop) running on a controlling thread, together with the              *)
(* AVFoundation sample-buffer delegate running on the serial dispatch     *)
(* queues that start() creates.  DeviceSpec covers the camera manager and  *)
(* the device handle (src/platform/macos/device.rs) and the descriptors  *)
(* of src/types.rs; LiveSpec is Spec under the fairness stop() relies on. *)
EXTENDS Integers, Sequences, FiniteSets, TLC

(* ------------------------------ bounds -------------------------------- *)
\* number of start() calls made on one stream (rejected and failed ones included)
MaxStarts == 2
\* number of samples the capture session hands to delegates over the run
MaxSamples == 2
\* number of cameras attached to the host
MaxCameras == 2
\* number of frame-rate ranges handed to FormatDescriptor::from_ranges
MaxRanges == 17

\* start() call k carries callback k and, if it gets that far, creates
\* delegate k with its own serial queue k.  0 stands for None.
Ids == 1..MaxStarts

(* ----------------------- pixel formats (device.rs) -------------------- *)
FourCC_420v == 875704438
FourCC_420f == 875704422
FourCC_yuvs == 2037741106
FourCC_2vuy == 846624121
FourCC_BGRA == 1111970369
FourCC_jpeg == 1785750887

PixelFormat == {"Nv12", "Yuyv", "Uyvy", "Bgra32", "Jpeg"}

\* fourcc_to_pixel_format with 'yuvs' and '2vuy' taken for each other
fourcc_to_pixel_format_swapped(fourcc) ==
    CASE fourcc = FourCC_420v -> "Nv12"
      [] fourcc = FourCC_420f -> "Nv12"
      [] fourcc = FourCC_yuvs -> "Uyvy"
      [] fourcc = FourCC_2vuy -> "Yuyv"
      [] fourcc = FourCC_BGRA -> "Bgra32"
      [] fourcc = FourCC_jpeg -> "Jpeg"
      [] OTHER -> "None"

fourcc_to_pixel_format(fourcc) ==
    CASE fourcc = FourCC_420v -> "Nv12"
      [] fourcc = FourCC_420f -> "Nv12"
      [] fourcc = FourCC_yuvs -> "Yuyv"
      [] fourcc = FourCC_2vuy -> "Uyvy"
      [] fourcc = FourCC_BGRA -> "Bgra32"
      [] fourcc = FourCC_jpeg -> "Jpeg"
      [] OTHER -> "None"

pixel_format_to_fourcc(pf) ==
    CASE pf = "Nv12"   -> FourCC_420v
      [] pf = "Yuyv"   -> FourCC_yuvs
      [] pf = "Uyvy"   -> FourCC_2vuy
      [] pf = "Bgra32" -> FourCC_BGRA
      [] pf = "Jpeg"   -> FourCC_jpeg

(* --------------------- u32 values and their casts --------------------- *)
\* a u32 is written as its two 16-bit halves: the value is hi * 65536 + lo
U32(hi, lo) == [hi |-> hi, lo |-> lo]

\* `u as i32`: the same 32 bits read as two's complement
as_i32(u) ==
    IF u.hi >= 32768 THEN (u.hi - 65536) * 65536 + u.lo
    ELSE u.hi * 65536 + u.lo

\* `u as i64`: every u32 fits, the value is kept (written in halves)
as_i64(u) == [hi |-> u.hi, lo |-> u.lo]

\* CMTime { value: frame_rate.denominator as i64, timescale: frame_rate.numerator as i32,
\*          flags: kCMTimeFlags_Valid, epoch: 0 }
frame_duration(frame_rate) ==
    [value |-> as_i64(frame_rate.denominator),
     timescale |-> as_i32(frame_rate.numerator),
     flags |-> 1, epoch |-> 0]

(* ------------- frame-rate ranges and descriptors (types.rs) ----------- *)
\* capacity of the inline array of frame-rate ranges of one FormatDescriptor
MAX_FRAME_RATE_RANGES == 8

\* f64_to_ratio that cuts the thousandths off instead of rounding
f64_to_ratio_truncating(fps) ==
    [numerator |-> IF fps < 0 THEN 0 ELSE fps \div 10, denominator |-> 1000]

\* a native frame rate (an f64) is written as an integer number of
\* ten-thousandths of a frame per second.
\* f64_to_ratio: Ratio { numerator: (fps * 1000.0).round() as u32, denominator: 1000 };
\* the cast to u32 turns a negative value into 0 (the rates used here stay far
\* below u32::MAX thousandths)
f64_to_ratio(fps) ==
    LET rounded == (fps + 5) \div 10
        numerator == IF rounded < 0 THEN 0 ELSE rounded
    IN  [numerator |-> numerator, denominator |-> 1000]

\* from_ranges that keeps the first chunk and drops the ranges beyond it
from_ranges_truncating(pixel_format, width, height, frame_rate_ranges) ==
    IF frame_rate_ranges = <<>> THEN <<>>
    ELSE LET n == IF Len(frame_rate_ranges) < MAX_FRAME_RATE_RANGES
                  THEN Len(frame_rate_ranges) ELSE MAX_FRAME_RATE_RANGES
         IN  <<[pixel_format |-> pixel_format, width |-> width, height |-> height,
                frame_rate_ranges |-> SubSeq(frame_rate_ranges, 1, n)]>>

\* FormatDescriptor::from_ranges: each call of the closure fills a chunk from
\* the iterator until the chunk is full or the iterator ends, and yields a
\* descriptor unless the chunk is empty
RECURSIVE from_ranges(_, _, _, _)
from_ranges(pixel_format, width, height, frame_rate_ranges) ==
    IF frame_rate_ranges = <<>> THEN <<>>
    ELSE LET n == IF Len(frame_rate_ranges) < MAX_FRAME_RATE_RANGES
                  THEN Len(frame_rate_ranges) ELSE MAX_FRAME_RATE_RANGES
             chunk == SubSeq(frame_rate_ranges, 1, n)
             rest == SubSeq(frame_rate_ranges, n + 1, Len(frame_rate_ranges))
         IN  <<[pixel_format |-> pixel_format, width |-> width, height |-> height,
                frame_rate_ranges |-> chunk]>>
             \o from_ranges(pixel_format, width, height, rest)

\* format_to_descriptors that takes an unrecognised media sub type for Nv12
format_to_descriptors_assumes_nv12(format) ==
    LET pixel_format == fourcc_to_pixel_format(format.sub_type)
        frame_rate_ranges ==
            [i \in 1..Len(format.ranges) |->
                [min |-> f64_to_ratio(format.ranges[i].minFrameRate),
                 max |-> f64_to_ratio(format.ranges[i].maxFrameRate)]]
    IN  from_ranges(IF pixel_format = "None" THEN "Nv12" ELSE pixel_format,
                    format.width, format.height, frame_rate_ranges)

\* format_to_descriptors: the ranges are converted one by one; an unrecognised
\* media sub type (Option None) yields no descriptor
format_to_descriptors(format) ==
    LET pixel_format == fourcc_to_pixel_format(format.sub_type)
        frame_rate_ranges ==
            [i \in 1..Len(format.ranges) |->
                [min |-> f64_to_ratio(format.ranges[i].minFrameRate),
                 max |-> f64_to_ratio(format.ranges[i].maxFrameRate)]]
    IN  IF pixel_format = "None" THEN <<>>
        ELSE from_ranges(pixel_format, format.width, format.height, frame_rate_ranges)

\* MacosCameraDevice::supported_formats: flat_map of format_to_descriptors over
\* device.formats(), always Ok
RECURSIVE supported_formats(_)
supported_formats(device_formats) ==
    IF device_formats = <<>> THEN <<>>
    ELSE format_to_descriptors(Head(device_formats))
         \o supported_formats(Tail(device_formats))

(* ------------------------------- state -------------------------------- *)
VARIABLES
    \* native objects
    sessionRunning,    \* AVCaptureSession is running
    outputDelegate,    \* delegate registered on the AVCaptureVideoDataOutput (0 = nil)
    deviceLock,        \* lockForConfiguration calls not yet matched by unlockForConfiguration
    stopRunningCalls,  \* number of stopRunning calls made
    aborted,           \* the process was terminated
    \* MacosCameraStream
    stream,            \* "none" (device handle not yet opened) | "open" | "failed" | "dropped"
    delegate,          \* self.delegate (0 = None)
    config_locked,     \* self.config_locked
    running,           \* self.running
    \* the thread inside a method of the stream
    op,                \* "none" | "start" | "stop" | "drop"
    caller,            \* 0 = controlling thread, d = the delivery thread of queue d (from its callback)
    cpc,               \* position inside the method
    nextCb,            \* number of start() calls made so far
    ret,               \* the last call that returned: [op, res, by]
    invokedSince,      \* callbacks entered since the last call returned
    startResult,       \* startResult[k]: what start() call k returned ("none": not yet)
    \* SampleBufferDelegate d / DelegateIvars (one per start() that got past the check)
    callback,          \* callback[d]: the Option inside the Mutex holds Some(cb d)
    mutexHeld,         \* mutexHeld[d]: the callback mutex is held (by the delivery thread of d)
    poisoned,          \* poisoned[d]: the callback mutex is poisoned
    \* serial dispatch queue d and the delegate method running on it
    pending,           \* pending[d]: samples dispatched to queue d, not yet run
    enqueued,          \* samples dispatched so far
    dpc,               \* dpc[d]: "idle" | "locked" | "inCallback" | "unlock"
    bufLocked,         \* bufLocked[d]: the pixel buffer of the sample being delivered is locked
    leaked,            \* pixel buffers left locked by a delivery that never unlocked
    steps,             \* steps[d]: what the current (or last) delivery on queue d has done
    \* observation
    invoked,           \* callbacks that have been invoked at least once
    stopped,           \* delegates whose stop() has returned Ok
    late,              \* delegates that were handed a sample after their stop() returned
    droppedWhile,      \* "Running" | "Configured": the state drop() found the stream in ("": no drop yet)
    \* the device behind the handle and the request made of it
    formats,           \* device.formats(): the native catalog of the device
    config,            \* the StreamConfig open() was called with (NoConfig before open)
    frame,             \* frame[d]: the Frame built for the sample being delivered on queue d
    \* the host, as the camera manager sees it
    mediaTypeVideo,    \* AVMediaTypeVideo is available
    cameras,           \* the attached cameras, each given by its native catalog
    answer             \* what the last call on the manager or on a device handle returned

nativeVars   == <<sessionRunning, outputDelegate, deviceLock, stopRunningCalls, aborted>>
streamVars   == <<stream, delegate, config_locked, running>>
retVars      == <<ret, invokedSince, startResult>>
ctlVars      == <<op, caller, cpc, nextCb, retVars>>
delegateVars == <<callback, mutexHeld, poisoned>>
queueVars    == <<pending, enqueued, dpc, bufLocked, leaked, steps>>
obsVars      == <<invoked, stopped, late, droppedWhile>>
deviceVars   == <<formats, config>>
hostVars     == <<mediaTypeVideo, cameras, answer>>
vars == <<nativeVars, streamVars, ctlVars, delegateVars, queueVars, obsVars,
          deviceVars, frame, hostVars>>

\* format.videoSupportedFrameRateRanges(): n ranges, all different, none a
\* whole number of thousandths
Rates(n) ==
    [i \in 1..n |-> [minFrameRate |-> 10000 * i + 4, maxFrameRate |-> 10000 * i + 299706]]

\* device.formats(): the native catalog, each format a (media sub type,
\* dimensions, frame-rate ranges); 1983000880 is 'v210', an encoding outside the
\* recognised six
Catalogs ==
    { <<>>,
      <<[sub_type |-> FourCC_420v, width |-> 1280, height |-> 720, ranges |-> Rates(1)]>>,
      <<[sub_type |-> FourCC_420f, width |-> 1280, height |-> 720, ranges |-> Rates(2)],
        [sub_type |-> FourCC_yuvs, width |-> 640, height |-> 480, ranges |-> Rates(9)]>>,
      <<[sub_type |-> 1983000880, width |-> 1280, height |-> 720, ranges |-> Rates(1)],
        [sub_type |-> FourCC_420v, width |-> 640, height |-> 480, ranges |-> Rates(9)]>> }

\* StreamConfig values the caller passes (pixel_format, size)
Configs ==
    { [pixel_format |-> "Nv12", width |-> 1280, height |-> 720,
       frame_rate |-> [numerator |-> U32(0, 30), denominator |-> U32(0, 1)]],
      [pixel_format |-> "Uyvy", width |-> 640, height |-> 480,
       frame_rate |-> [numerator |-> U32(0, 30), denominator |-> U32(0, 1)]] }

NoRet == [op |-> "none", res |-> "none", by |-> 0]
NoConfig == [pixel_format |-> "None", width |-> 0, height |-> 0,
             frame_rate |-> [numerator |-> U32(0, 0), denominator |-> U32(0, 0)]]
NoFrame == [pixel_format |-> "None", width |-> 0, height |-> 0, fourcc |-> 0]
NoAnswer == [op |-> "none", res |-> "none", arg |-> <<>>, val |-> <<>>]

\* nothing has been opened and no call has been made
StreamInit ==
    /\ sessionRunning = FALSE
    /\ outputDelegate = 0
    /\ deviceLock = 0
    /\ stopRunningCalls = 0
    /\ aborted = FALSE
    /\ stream = "none"
    /\ delegate = 0
    /\ config_locked = FALSE
    /\ running = FALSE
    /\ op = "none"
    /\ caller = 0
    /\ cpc = "idle"
    /\ nextCb = 0
    /\ ret = NoRet
    /\ invokedSince = {}
    /\ startResult = [k \in Ids |-> "none"]
    /\ callback = [d \in Ids |-> FALSE]
    /\ mutexHeld = [d \in Ids |-> FALSE]
    /\ poisoned = [d \in Ids |-> FALSE]
    /\ pending = [d \in Ids |-> 0]
    /\ enqueued = 0
    /\ dpc = [d \in Ids |-> "idle"]
    /\ bufLocked = [d \in Ids |-> FALSE]
    /\ leaked = 0
    /\ steps = [d \in Ids |-> <<>>]
    /\ invoked = {}
    /\ stopped = {}
    /\ late = {}
    /\ droppedWhile = ""
    /\ config = NoConfig
    /\ frame = [d \in Ids |-> NoFrame]

\* a device handle obtained by discovery, over any of the catalogs
Init ==
    /\ StreamInit
    /\ formats \in Catalogs
    /\ mediaTypeVideo = TRUE
    /\ cameras = <<formats>>
    /\ answer = NoAnswer

Return(o, r, by) == [op |-> o, res |-> r, by |-> by]

(* ------------------- MacosCameraStream::new (open) -------------------- *)
\* what the native calls of one open() do
OpenOutcomes ==
    [ inputOk : BOOLEAN,       \* deviceInputWithDevice_error returns an input
      cfgRaises : BOOLEAN,     \* an Objective-C exception inside the session configuration block
      canAddInput : BOOLEAN,
      canAddOutput : BOOLEAN,
      lockOk : BOOLEAN,        \* lockForConfiguration succeeds
      setRaises : BOOLEAN ]    \* setActiveFormat / setActiveVideo*FrameDuration raises

\* the loop over device.formats(): index of the first format whose sub type and
\* dimensions equal the request, 0 when there is none
matched_format(device_formats, request) ==
    LET target_fourcc == pixel_format_to_fourcc(request.pixel_format)
        hits == { i \in 1..Len(device_formats) :
                    /\ device_formats[i].sub_type = target_fourcc
                    /\ device_formats[i].width = request.width
                    /\ device_formats[i].height = request.height }
    IN  IF hits = {} THEN 0 ELSE CHOOSE i \in hits : \A j \in hits : i <= j

\* the native calls made up to the end of the format loop
CallsToFormats == <<"deviceInputWithDevice_error", "setVideoSettings", "formats">>

\* nothing was passed to the device
NoSettings == [active_format |-> 0,
               min_frame_duration |-> [value |-> U32(0, 0), timescale |-> 0,
                                       flags |-> 0, epoch |-> 0],
               max_frame_duration |-> [value |-> U32(0, 0), timescale |-> 0,
                                       flags |-> 0, epoch |-> 0]]

Outcome(res, lock, at, calls, set) ==
    [res |-> res, lock |-> lock, at |-> at, calls |-> calls, set |-> set]

\* new that configures the session and locks the device before it looks for
\* the format
new_configures_first(device_formats, request, o) ==
    LET configured == <<"deviceInputWithDevice_error", "setVideoSettings",
                        "beginConfiguration", "canAddInput", "addInput",
                        "canAddOutput", "addOutput", "commitConfiguration",
                        "lockForConfiguration">>
    IN
    IF ~o.inputOk
    THEN Outcome("Platform", 0, "input", <<"deviceInputWithDevice_error">>, NoSettings)
    ELSE IF matched_format(device_formats, request) = 0
    THEN Outcome("UnsupportedFormat", 1, "format", configured \o <<"formats">>, NoSettings)
    ELSE Outcome("Ok", 1, "done",
                 configured \o <<"formats", "setActiveFormat",
                                 "setActiveVideoMinFrameDuration",
                                 "setActiveVideoMaxFrameDuration">>,
                 [active_format |-> matched_format(device_formats, request),
                  min_frame_duration |-> frame_duration(request.frame_rate),
                  max_frame_duration |-> frame_duration(request.frame_rate)])

\* MacosCameraStream::new: the result, the number of configuration locks it
\* leaves taken, the step it ended at, the native calls it made and what it
\* passed to the device
new(device_formats, request, o) ==
    LET matched == matched_format(device_formats, request)
        duration == frame_duration(request.frame_rate)
        c1 == CallsToFormats \o <<"beginConfiguration">>
        c2 == c1 \o <<"canAddInput">>
        c3 == c2 \o <<"addInput", "canAddOutput">>
        c4 == c3 \o <<"addOutput", "commitConfiguration", "lockForConfiguration">>
    IN
    IF ~o.inputOk
    THEN Outcome("Platform", 0, "input", <<"deviceInputWithDevice_error">>, NoSettings)
    ELSE IF matched = 0
    THEN Outcome("UnsupportedFormat", 0, "format", CallsToFormats, NoSettings)
    ELSE IF o.cfgRaises
    THEN Outcome("Platform", 0, "configure", c1, NoSettings)
    ELSE IF ~o.canAddInput
    THEN Outcome("Platform", 0, "addInput", c2 \o <<"commitConfiguration">>, NoSettings)
    ELSE IF ~o.canAddOutput
    THEN Outcome("Platform", 0, "addOutput", c3 \o <<"commitConfiguration">>, NoSettings)
    ELSE IF ~o.lockOk
    THEN Outcome("Platform", 0, "lock", c4, NoSettings)
    ELSE IF o.setRaises
    THEN Outcome("Platform", 1, "activate", c4 \o <<"setActiveFormat">>, NoSettings)
    ELSE Outcome("Ok", 1, "done",
                 c4 \o <<"setActiveFormat", "setActiveVideoMinFrameDuration",
                         "setActiveVideoMaxFrameDuration">>,
                 [active_format |-> matched,
                  min_frame_duration |-> duration,
                  max_frame_duration |-> duration])

\* open that borrows the device handle, so that a handle whose open() failed
\* can be opened again
open_by_reference ==
    /\ ~aborted
    /\ stream \in {"none", "failed"}
    /\ \E request \in Configs, o \in OpenOutcomes :
         LET r == new(formats, request, o) IN
         /\ config' = request
         /\ stream' = IF r.res = "Ok" THEN "open" ELSE "failed"
         /\ config_locked' = (r.res = "Ok")
         /\ deviceLock' = deviceLock + r.lock
         /\ ret' = Return("open", r.res, 0)
         /\ answer' = [op |-> "open", res |-> r.res, arg |-> request,
                        val |-> [calls |-> r.calls, set |-> r.set]]
    /\ UNCHANGED <<invokedSince, startResult>>
    /\ UNCHANGED <<sessionRunning, outputDelegate, stopRunningCalls, aborted>>
    /\ UNCHANGED <<delegate, running, op, caller, cpc, nextCb>>
    /\ UNCHANGED <<delegateVars, queueVars, obsVars>>
    /\ UNCHANGED <<formats, frame, mediaTypeVideo, cameras>>

\* CameraDevice::open: consumes the device handle
Open ==
    /\ ~aborted
    /\ stream = "none"
    /\ \E request \in Configs, o \in OpenOutcomes :
         LET r == new(formats, request, o) IN
         /\ config' = request
         /\ stream' = IF r.res = "Ok" THEN "open" ELSE "failed"
         /\ config_locked' = (r.res = "Ok")
         /\ deviceLock' = deviceLock + r.lock
         /\ ret' = Return("open", r.res, 0)
         /\ answer' = [op |-> "open", res |-> r.res, arg |-> request,
                        val |-> [calls |-> r.calls, set |-> r.set]]
    /\ UNCHANGED <<invokedSince, startResult>>
    /\ UNCHANGED <<sessionRunning, outputDelegate, stopRunningCalls, aborted>>
    /\ UNCHANGED <<delegate, running, op, caller, cpc, nextCb>>
    /\ UNCHANGED <<delegateVars, queueVars, obsVars>>
    /\ UNCHANGED <<formats, frame, mediaTypeVideo, cameras>>

(* --------------------- calls into the open stream --------------------- *)
\* the controlling thread owns the stream (&mut self): one method at a time
CtlIdle == ~aborted /\ stream = "open" /\ cpc = "idle" /\ caller = 0

\* the thread inside a method of the stream is at position p
At(p) == ~aborted /\ cpc = p

\* the delegate method on queue d is at position p
In(d, p) == ~aborted /\ dpc[d] = p

\* leave the method: record what it returned and to whom
Leave(res) ==
    /\ ret' = Return(op, res, caller)
    /\ invokedSince' = {}
    /\ startResult' = IF op = "start" THEN [startResult EXCEPT ![nextCb] = res]
                                     ELSE startResult
    /\ op' = "none"
    /\ caller' = 0
    /\ cpc' = "idle"

CallStart ==
    /\ CtlIdle
    /\ nextCb < MaxStarts
    /\ op' = "start"
    /\ cpc' = "start_check"
    /\ nextCb' = nextCb + 1
    /\ UNCHANGED <<caller, retVars, nativeVars, streamVars, delegateVars, queueVars, obsVars>>
    /\ UNCHANGED <<deviceVars, frame, hostVars>>

CallStop ==
    /\ CtlIdle
    /\ op' = "stop"
    /\ cpc' = "stop_check"
    /\ UNCHANGED <<caller, nextCb, retVars, nativeVars, streamVars, delegateVars, queueVars, obsVars>>
    /\ UNCHANGED <<deviceVars, frame, hostVars>>

CallDrop ==
    /\ CtlIdle
    /\ op' = "drop"
    /\ cpc' = "drop_check"
    /\ UNCHANGED <<caller, nextCb, retVars, nativeVars, streamVars, delegateVars, queueVars, obsVars>>
    /\ UNCHANGED <<deviceVars, frame, hostVars>>

(* ---------------------- MacosCameraStream::start ---------------------- *)
\* start_already_started that installs the new callback before it fails
start_already_started_replaces ==
    /\ At("start_check")
    /\ running
    /\ callback' = [callback EXCEPT ![nextCb] = TRUE]
    /\ outputDelegate' = nextCb
    /\ delegate' = nextCb
    /\ Leave("AlreadyStarted")
    /\ UNCHANGED <<sessionRunning, deviceLock, stopRunningCalls, aborted>>
    /\ UNCHANGED <<stream, config_locked, running, nextCb>>
    /\ UNCHANGED <<mutexHeld, poisoned, queueVars, obsVars>>
    /\ UNCHANGED <<deviceVars, frame, hostVars>>

\* if self.running { return Err(AlreadyStarted) }   (the callback is dropped)
start_already_started ==
    /\ At("start_check")
    /\ running
    /\ Leave("AlreadyStarted")
    /\ UNCHANGED <<nextCb, nativeVars, streamVars, delegateVars, queueVars, obsVars>>
    /\ UNCHANGED <<deviceVars, frame, hostVars>>

\* SampleBufferDelegate::new(callback); a new SERIAL queue;
\* output.setSampleBufferDelegate_queue(Some(delegate), Some(queue)); self.delegate = Some(delegate)
start_register ==
    /\ At("start_check")
    /\ ~running
    /\ callback' = [callback EXCEPT ![nextCb] = TRUE]
    /\ outputDelegate' = nextCb
    /\ delegate' = nextCb
    /\ cpc' = "start_run"
    /\ UNCHANGED <<sessionRunning, deviceLock, stopRunningCalls, aborted>>
    /\ UNCHANGED <<stream, config_locked, running, op, caller, nextCb, retVars>>
    /\ UNCHANGED <<mutexHeld, poisoned, queueVars, obsVars>>
    /\ UNCHANGED <<deviceVars, frame, hostVars>>

\* catch_objc(|| self.session.startRunning())? : the exception path
start_raises ==
    /\ At("start_run")
    /\ Leave("Platform")
    /\ UNCHANGED <<nextCb, nativeVars, streamVars, delegateVars, queueVars, obsVars>>
    /\ UNCHANGED <<deviceVars, frame, hostVars>>

\* catch_objc(|| self.session.startRunning())? : the session starts
start_run ==
    /\ At("start_run")
    /\ sessionRunning' = TRUE
    /\ cpc' = "start_finish"
    /\ UNCHANGED <<outputDelegate, deviceLock, stopRunningCalls, aborted>>
    /\ UNCHANGED <<streamVars, op, caller, nextCb, retVars, delegateVars, queueVars, obsVars>>
    /\ UNCHANGED <<deviceVars, frame, hostVars>>

\* start_finish that leaves the configuration lock in place
start_finish_keeps_lock ==
    /\ At("start_finish")
    /\ running' = TRUE
    /\ Leave("Ok")
    /\ UNCHANGED <<nativeVars, stream, delegate, config_locked, nextCb>>
    /\ UNCHANGED <<delegateVars, queueVars, obsVars, deviceVars, frame, hostVars>>

\* self.running = true; if self.config_locked { unlockForConfiguration; config_locked = false }; Ok(())
start_finish ==
    /\ At("start_finish")
    /\ running' = TRUE
    /\ deviceLock' = IF config_locked THEN deviceLock - 1 ELSE deviceLock
    /\ config_locked' = FALSE
    /\ Leave("Ok")
    /\ UNCHANGED <<sessionRunning, outputDelegate, stopRunningCalls, aborted>>
    /\ UNCHANGED <<stream, delegate, nextCb, delegateVars, queueVars, obsVars>>
    /\ UNCHANGED <<deviceVars, frame, hostVars>>

(* ----------------------- MacosCameraStream::stop ---------------------- *)
\* stop_not_started that tears the delegate down before it fails
stop_not_started_clears ==
    /\ At("stop_check")
    /\ ~running
    /\ outputDelegate' = 0
    /\ delegate' = 0
    /\ Leave("NotStarted")
    /\ UNCHANGED <<sessionRunning, deviceLock, stopRunningCalls, aborted>>
    /\ UNCHANGED <<stream, config_locked, running, nextCb>>
    /\ UNCHANGED <<delegateVars, queueVars, obsVars>>
    /\ UNCHANGED <<deviceVars, frame, hostVars>>

\* if !self.running { return Err(NotStarted) }
stop_not_started ==
    /\ At("stop_check")
    /\ ~running
    /\ Leave("NotStarted")
    /\ UNCHANGED <<nextCb, nativeVars, streamVars, delegateVars, queueVars, obsVars>>
    /\ UNCHANGED <<deviceVars, frame, hostVars>>

\* self.session.stopRunning()
stop_running ==
    /\ At("stop_check")
    /\ running
    /\ sessionRunning' = FALSE
    /\ stopRunningCalls' = stopRunningCalls + 1
    /\ cpc' = "stop_undelegate"
    /\ UNCHANGED <<outputDelegate, deviceLock, aborted>>
    /\ UNCHANGED <<streamVars, op, caller, nextCb, retVars, delegateVars, queueVars, obsVars>>
    /\ UNCHANGED <<deviceVars, frame, hostVars>>

\* self.output.setSampleBufferDelegate_queue(None, None)
stop_undelegate ==
    /\ At("stop_undelegate")
    /\ outputDelegate' = 0
    /\ cpc' = "stop_clear"
    /\ UNCHANGED <<sessionRunning, deviceLock, stopRunningCalls, aborted>>
    /\ UNCHANGED <<streamVars, op, caller, nextCb, retVars, delegateVars, queueVars, obsVars>>
    /\ UNCHANGED <<deviceVars, frame, hostVars>>

\* a lock that the thread already holding it (the delivery thread of d, from
\* inside its callback) may take again
lock_returns_reentrant(d) == ~mutexHeld[d] \/ caller = d

\* Mutex::lock on the callback mutex of delegate d returns (Ok or Err) only
\* once no thread holds the mutex; a poisoned mutex is not held
lock_returns(d) == ~mutexHeld[d]

\* clear_callback without taking the callback mutex first
clear_callback_nowait(d) ==
    IF d = 0 THEN UNCHANGED callback
    ELSE callback' = [callback EXCEPT ![d] = FALSE]

\* clear_callback that takes the mutex and leaves the callback in place
clear_callback_keep(d) ==
    IF d = 0 THEN UNCHANGED callback
    ELSE lock_returns(d) /\ UNCHANGED callback

\* clear_callback that also waits until the queue of the delegate has run every
\* sample handed to it
clear_callback_drains(d) ==
    IF d = 0 THEN UNCHANGED callback
    ELSE /\ lock_returns(d)
         /\ pending[d] = 0 /\ dpc[d] = "idle"
         /\ callback' = IF poisoned[d] THEN callback
                        ELSE [callback EXCEPT ![d] = FALSE]

\* if let Some(delegate) = self.delegate && let Ok(guard) = delegate.ivars().callback.lock()
\*     { *guard = None }
clear_callback(d) ==
    IF d = 0 THEN UNCHANGED callback
    ELSE /\ lock_returns(d)
         /\ callback' = IF poisoned[d] THEN callback
                        ELSE [callback EXCEPT ![d] = FALSE]

\* stop_clear that forgets self.running = false
stop_clear_keeps_running ==
    /\ At("stop_clear")
    /\ clear_callback(delegate)
    /\ delegate' = 0
    /\ stopped' = IF delegate = 0 THEN stopped ELSE stopped \cup {delegate}
    /\ IF op = "drop"
         THEN cpc' = "drop_unlock" /\ UNCHANGED <<op, caller, retVars>>
         ELSE Leave("Ok")
    /\ UNCHANGED <<nativeVars, stream, config_locked, running, nextCb>>
    /\ UNCHANGED <<mutexHeld, poisoned, queueVars, invoked, late, droppedWhile>>
    /\ UNCHANGED <<deviceVars, frame, hostVars>>

\* the callback is cleared; self.delegate = None; self.running = false; Ok(())
\* (inside Drop the result is ignored and drop goes on)
stop_clear ==
    /\ At("stop_clear")
    /\ clear_callback(delegate)
    /\ delegate' = 0
    /\ running' = FALSE
    /\ stopped' = IF delegate = 0 THEN stopped ELSE stopped \cup {delegate}
    /\ IF op = "drop"
         THEN cpc' = "drop_unlock" /\ UNCHANGED <<op, caller, retVars>>
         ELSE Leave("Ok")
    /\ UNCHANGED <<nativeVars, stream, config_locked, nextCb>>
    /\ UNCHANGED <<mutexHeld, poisoned, queueVars, invoked, late, droppedWhile>>
    /\ UNCHANGED <<deviceVars, frame, hostVars>>

(* -------------------- impl Drop for MacosCameraStream ----------------- *)
\* drop_check that never calls stop()
drop_check_no_stop ==
    /\ At("drop_check")
    /\ cpc' = "drop_unlock"
    /\ droppedWhile' = IF running THEN "Running" ELSE "Configured"
    /\ UNCHANGED <<op, caller, nextCb, retVars>>
    /\ UNCHANGED <<nativeVars, streamVars, delegateVars, queueVars>>
    /\ UNCHANGED <<invoked, stopped, late>>
    /\ UNCHANGED <<deviceVars, frame, hostVars>>

\* if self.running { let _ = self.stop(); }
drop_check ==
    /\ At("drop_check")
    /\ cpc' = IF running THEN "stop_check" ELSE "drop_unlock"
    /\ droppedWhile' = IF running THEN "Running" ELSE "Configured"
    /\ UNCHANGED <<op, caller, nextCb, retVars>>
    /\ UNCHANGED <<nativeVars, streamVars, delegateVars, queueVars>>
    /\ UNCHANGED <<invoked, stopped, late>>
    /\ UNCHANGED <<deviceVars, frame, hostVars>>

\* drop_unlock that unlocks without looking at config_locked
drop_unlock_always ==
    /\ At("drop_unlock")
    /\ deviceLock' = deviceLock - 1
    /\ config_locked' = FALSE
    /\ stream' = "dropped"
    /\ delegate' = 0
    /\ Leave("Ok")
    /\ UNCHANGED <<sessionRunning, outputDelegate, stopRunningCalls, aborted>>
    /\ UNCHANGED <<running, nextCb, delegateVars, queueVars, obsVars>>
    /\ UNCHANGED <<deviceVars, frame, hostVars>>

\* if self.config_locked { unlockForConfiguration; config_locked = false }; the fields are released
drop_unlock ==
    /\ At("drop_unlock")
    /\ deviceLock' = IF config_locked THEN deviceLock - 1 ELSE deviceLock
    /\ config_locked' = FALSE
    /\ stream' = "dropped"
    /\ delegate' = 0
    /\ Leave("Ok")
    /\ UNCHANGED <<sessionRunning, outputDelegate, stopRunningCalls, aborted>>
    /\ UNCHANGED <<running, nextCb, delegateVars, queueVars, obsVars>>
    /\ UNCHANGED <<deviceVars, frame, hostVars>>

(* ------------- AVFoundation: samples handed to the delegate ----------- *)
\* the running session dispatches a sample to the registered delegate's queue;
\* the block keeps the delegate alive and runs whenever the queue gets to it
Dispatch(d) ==
    /\ ~aborted
    /\ sessionRunning
    /\ outputDelegate = d
    /\ enqueued < MaxSamples
    /\ enqueued' = enqueued + 1
    /\ pending' = [pending EXCEPT ![d] = @ + 1]
    /\ UNCHANGED <<nativeVars, streamVars, ctlVars, delegateVars, obsVars>>
    /\ UNCHANGED <<dpc, bufLocked, leaked, steps>>
    /\ UNCHANGED <<deviceVars, frame, hostVars>>

(* --- SampleBufferDelegate::captureOutput_didOutputSampleBuffer_fromConnection --- *)
\* the queue is serial: the next block starts when the previous one has ended.
\* sample_buffer.image_buffer() is None => return
captureOutput_no_image(d) ==
    /\ In(d, "idle")
    /\ pending[d] > 0
    /\ pending' = [pending EXCEPT ![d] = @ - 1]
    /\ steps' = [steps EXCEPT ![d] = <<>>]
    /\ late' = IF d \in stopped THEN late \cup {d} ELSE late
    /\ UNCHANGED <<nativeVars, streamVars, ctlVars, delegateVars>>
    /\ UNCHANGED <<enqueued, dpc, bufLocked, leaked, invoked, stopped, droppedWhile>>
    /\ UNCHANGED <<deviceVars, frame, hostVars>>

\* the pixel buffers the output hands over: the size of the active format, in
\* the encoding asked for by setVideoSettings or in one outside the recognised
\* six (1983000880, 'v210'), the case from_locked_pixel_buffer provides for
OutputBuffers ==
    { [fourcc |-> e, width |-> config.width, height |-> config.height] :
        e \in {pixel_format_to_fourcc(config.pixel_format), 1983000880} }

\* MacosFrame::from_locked_pixel_buffer: width, height and format type are read
\* from the buffer; fourcc_to_pixel_format(fourcc).unwrap_or(PixelFormat::Nv12)
from_locked_pixel_buffer(pixel_buffer) ==
    LET pixel_format == fourcc_to_pixel_format(pixel_buffer.fourcc)
    IN  [pixel_format |-> IF pixel_format = "None" THEN "Nv12" ELSE pixel_format,
         width |-> pixel_buffer.width,
         height |-> pixel_buffer.height,
         fourcc |-> pixel_buffer.fourcc]

\* CVPixelBufferLockBaseAddress(ReadOnly); MacosFrame::from_locked_pixel_buffer
captureOutput_lock(d) ==
    /\ In(d, "idle")
    /\ pending[d] > 0
    /\ \E pixel_buffer \in OutputBuffers :
         frame' = [frame EXCEPT ![d] = from_locked_pixel_buffer(pixel_buffer)]
    /\ pending' = [pending EXCEPT ![d] = @ - 1]
    /\ bufLocked' = [bufLocked EXCEPT ![d] = TRUE]
    /\ dpc' = [dpc EXCEPT ![d] = "locked"]
    /\ steps' = [steps EXCEPT ![d] = <<"lock", "frame">>]
    /\ late' = IF d \in stopped THEN late \cup {d} ELSE late
    /\ UNCHANGED <<nativeVars, streamVars, ctlVars, delegateVars>>
    /\ UNCHANGED <<enqueued, leaked, invoked, stopped, droppedWhile>>
    /\ UNCHANGED <<deviceVars, hostVars>>

\* captureOutput_invoke that unlocks the buffer before it calls the callback
captureOutput_invoke_unlocks_first(d) ==
    /\ In(d, "locked")
    /\ lock_returns(d)
    /\ IF ~poisoned[d] /\ callback[d]
         THEN /\ mutexHeld' = [mutexHeld EXCEPT ![d] = TRUE]
              /\ dpc' = [dpc EXCEPT ![d] = "inCallback"]
              /\ bufLocked' = [bufLocked EXCEPT ![d] = FALSE]
              /\ steps' = [steps EXCEPT ![d] = Append(Append(@, "unlock"), "callback")]
              /\ invoked' = invoked \cup {d}
              /\ invokedSince' = invokedSince \cup {d}
         ELSE /\ dpc' = [dpc EXCEPT ![d] = "unlock"]
              /\ UNCHANGED <<mutexHeld, steps, invoked, invokedSince, bufLocked>>
    /\ UNCHANGED <<nativeVars, streamVars, callback, poisoned>>
    /\ UNCHANGED <<op, caller, cpc, nextCb, ret, startResult>>
    /\ UNCHANGED <<pending, enqueued, leaked, stopped, late, droppedWhile>>
    /\ UNCHANGED <<deviceVars, frame, hostVars>>

\* if let Ok(guard) = self.ivars().callback.lock() && let Some(cb) = *guard { cb(&frame) }
\* : the callback is entered with the guard held, or the block is skipped
captureOutput_invoke(d) ==
    /\ In(d, "locked")
    /\ lock_returns(d)
    /\ IF ~poisoned[d] /\ callback[d]
         THEN /\ mutexHeld' = [mutexHeld EXCEPT ![d] = TRUE]
              /\ dpc' = [dpc EXCEPT ![d] = "inCallback"]
              /\ steps' = [steps EXCEPT ![d] = Append(@, "callback")]
              /\ invoked' = invoked \cup {d}
              /\ invokedSince' = invokedSince \cup {d}
         ELSE /\ dpc' = [dpc EXCEPT ![d] = "unlock"]
              /\ UNCHANGED <<mutexHeld, steps, invoked, invokedSince>>
    /\ UNCHANGED <<nativeVars, streamVars, callback, poisoned>>
    /\ UNCHANGED <<op, caller, cpc, nextCb, ret, startResult>>
    /\ UNCHANGED <<pending, enqueued, bufLocked, leaked, stopped, late, droppedWhile>>
    /\ UNCHANGED <<deviceVars, frame, hostVars>>

\* cb(&frame) returns; the guard is dropped
callback_returns(d) ==
    /\ In(d, "inCallback")
    /\ caller # d
    /\ mutexHeld' = [mutexHeld EXCEPT ![d] = FALSE]
    /\ dpc' = [dpc EXCEPT ![d] = "unlock"]
    /\ steps' = [steps EXCEPT ![d] = Append(@, "return")]
    /\ UNCHANGED <<nativeVars, streamVars, ctlVars, callback, poisoned>>
    /\ UNCHANGED <<pending, enqueued, bufLocked, leaked, obsVars>>
    /\ UNCHANGED <<deviceVars, frame, hostVars>>

\* cb(&frame) panics: the guard is dropped while unwinding, which poisons the
\* mutex; the unwind leaves the delegate method, so the buffer is not unlocked;
\* the foreign frames above either carry on or terminate the process
callback_panics(d) ==
    /\ In(d, "inCallback")
    /\ caller # d
    /\ mutexHeld' = [mutexHeld EXCEPT ![d] = FALSE]
    /\ poisoned' = [poisoned EXCEPT ![d] = TRUE]
    /\ dpc' = [dpc EXCEPT ![d] = "idle"]
    /\ bufLocked' = [bufLocked EXCEPT ![d] = FALSE]
    /\ leaked' = leaked + 1
    /\ frame' = [frame EXCEPT ![d] = NoFrame]
    /\ steps' = [steps EXCEPT ![d] = Append(@, "panic")]
    /\ aborted' \in BOOLEAN
    /\ UNCHANGED <<sessionRunning, outputDelegate, deviceLock, stopRunningCalls>>
    /\ UNCHANGED <<streamVars, ctlVars, callback, pending, enqueued, obsVars>>
    /\ UNCHANGED <<deviceVars, hostVars>>

\* the callback calls stop() on the stream it shares with the controlling thread
callback_calls_stop(d) ==
    /\ In(d, "inCallback")
    /\ stream = "open" /\ cpc = "idle" /\ caller = 0
    /\ op' = "stop"
    /\ caller' = d
    /\ cpc' = "stop_check"
    /\ UNCHANGED <<nextCb, retVars, nativeVars, streamVars, delegateVars, queueVars, obsVars>>
    /\ UNCHANGED <<deviceVars, frame, hostVars>>

\* CVPixelBufferUnlockBaseAddress(ReadOnly); the method returns
captureOutput_unlock(d) ==
    /\ In(d, "unlock")
    /\ frame' = [frame EXCEPT ![d] = NoFrame]
    /\ bufLocked' = [bufLocked EXCEPT ![d] = FALSE]
    /\ dpc' = [dpc EXCEPT ![d] = "idle"]
    /\ steps' = [steps EXCEPT ![d] = Append(@, "unlock")]
    /\ UNCHANGED <<nativeVars, streamVars, ctlVars, delegateVars>>
    /\ UNCHANGED <<pending, enqueued, leaked, obsVars>>
    /\ UNCHANGED <<deviceVars, hostVars>>

(* --------------------------- specification ---------------------------- *)
Controller ==
    \/ Open
    \/ CallStart
    \/ CallStop
    \/ CallDrop
    \/ start_already_started
    \/ start_register
    \/ start_raises
    \/ start_run
    \/ start_finish
    \/ stop_not_started
    \/ stop_running
    \/ stop_undelegate
    \/ stop_clear
    \/ drop_check
    \/ drop_unlock

Delivery(d) ==
    \/ Dispatch(d)
    \/ captureOutput_no_image(d)
    \/ captureOutput_lock(d)
    \/ captureOutput_invoke(d)
    \/ callback_returns(d)
    \/ callback_panics(d)
    \/ callback_calls_stop(d)
    \/ captureOutput_unlock(d)

Next == Controller \/ \E d \in Ids : Delivery(d)

Spec == Init /\ [][Next]_vars

\* the thread inside stop() keeps running: stopRunning, setSampleBufferDelegate
\* and the lock of the callback mutex each return once they can; and a callback
\* that is running returns (or panics). Nothing is asked of the queues about
\* the samples they have not started on.
LiveSpec ==
    /\ Spec
    /\ WF_vars(stop_running)
    /\ WF_vars(stop_undelegate)
    /\ WF_vars(stop_clear)
    /\ \A d \in Ids : WF_vars(callback_returns(d) \/ callback_panics(d))

(* ------------- MacosCameraManager and the device handle --------------- *)
\* the hosts: up to MaxCameras attached cameras, each with one of the catalogs
Hosts == UNION { [1..n -> Catalogs] : n \in 0..MaxCameras }

\* what the stream side of the state holds
streamSide == <<nativeVars, streamVars, ctlVars, delegateVars, queueVars, obsVars,
                deviceVars, frame>>

\* no device handle has been taken yet; the host is any of Hosts, with or
\* without the video media type
HostInit ==
    /\ StreamInit
    /\ formats = <<>>
    /\ mediaTypeVideo \in BOOLEAN
    /\ cameras \in Hosts
    /\ answer = NoAnswer

Answer(o, r, a, v) == [op |-> o, res |-> r, arg |-> a, val |-> v]

\* the calls below read the host and change nothing: one call on each host
\* covers every call
Fresh == answer = NoAnswer

\* discover_devices: AVMediaTypeVideo.ok_or_else(Platform)?; then one
\* MacosCameraDevice per element of devicesWithMediaType, in its order
discover_devices ==
    /\ Fresh
    /\ answer' = IF ~mediaTypeVideo
                 THEN Answer("discover_devices", "Platform", <<>>, <<>>)
                 ELSE Answer("discover_devices", "Ok", <<>>, cameras)
    /\ UNCHANGED <<streamSide, mediaTypeVideo, cameras>>

\* default_device that treats the absence of a camera as an error
default_device_requires_camera ==
    /\ Fresh
    /\ \/ /\ ~mediaTypeVideo
          /\ answer' = Answer("default_device", "Platform", <<>>, <<>>)
       \/ /\ mediaTypeVideo /\ cameras = <<>>
          /\ answer' = Answer("default_device", "DeviceNotFound", <<>>, <<>>)
       \/ /\ mediaTypeVideo
          /\ \E i \in 1..Len(cameras) :
               answer' = Answer("default_device", "Ok", <<>>, <<cameras[i]>>)
    /\ UNCHANGED <<streamSide, mediaTypeVideo, cameras>>

\* default_device: AVMediaTypeVideo.ok_or_else(Platform)?; then
\* Ok(defaultDeviceWithMediaType(..).map(MacosCameraDevice::new)): the Option is
\* None when no camera is attached, else the camera the system prefers
default_device ==
    /\ Fresh
    /\ \/ /\ ~mediaTypeVideo
          /\ answer' = Answer("default_device", "Platform", <<>>, <<>>)
       \/ /\ mediaTypeVideo /\ cameras = <<>>
          /\ answer' = Answer("default_device", "Ok", <<>>, <<>>)
       \/ /\ mediaTypeVideo
          /\ \E i \in 1..Len(cameras) :
               answer' = Answer("default_device", "Ok", <<>>, <<cameras[i]>>)
    /\ UNCHANGED <<streamSide, mediaTypeVideo, cameras>>

\* supported_formats(&self) on the handle of an attached camera
call_supported_formats ==
    /\ Fresh
    /\ \E i \in 1..Len(cameras) :
         answer' = Answer("supported_formats", "Ok", cameras[i],
                          supported_formats(cameras[i]))
    /\ UNCHANGED <<streamSide, mediaTypeVideo, cameras>>

\* the frame-rate ranges from_ranges is handed: n converted native ranges
FrameRateRanges(n) ==
    [i \in 1..n |-> [min |-> f64_to_ratio(Rates(n)[i].minFrameRate),
                     max |-> f64_to_ratio(Rates(n)[i].maxFrameRate)]]

\* FormatDescriptor::from_ranges(pixel_format, size, frame_rate_ranges), collected
call_from_ranges ==
    /\ Fresh
    /\ \E pixel_format \in PixelFormat, request \in Configs, n \in 0..MaxRanges :
         answer' = Answer("from_ranges", "Ok",
                          [pixel_format |-> pixel_format, width |-> request.width,
                           height |-> request.height,
                           frame_rate_ranges |-> FrameRateRanges(n)],
                          from_ranges(pixel_format, request.width, request.height,
                                      FrameRateRanges(n)))
    /\ UNCHANGED <<streamSide, mediaTypeVideo, cameras>>

(* ------------- MacosCameraDeviceExt: the device-control setters -------- *)
\* the capability each setter asks the device about before it locks
SetterCheck ==
    [ set_focus_mode |-> "none",
      set_focus_point |-> "isFocusPointOfInterestSupported",
      set_exposure_mode |-> "none",
      set_exposure_point |-> "isExposurePointOfInterestSupported",
      set_exposure_target_bias |-> "none",
      set_white_balance_mode |-> "isWhiteBalanceModeSupported",
      set_torch_mode |-> "isTorchModeSupported",
      set_zoom_factor |-> "none",
      set_active_video_min_frame_duration |-> "none",
      set_active_video_max_frame_duration |-> "none" ]

\* the native call each setter makes under the lock
SetterCall ==
    [ set_focus_mode |-> "setFocusMode",
      set_focus_point |-> "setFocusPointOfInterest",
      set_exposure_mode |-> "setExposureMode",
      set_exposure_point |-> "setExposurePointOfInterest",
      set_exposure_target_bias |-> "setExposureTargetBias",
      set_white_balance_mode |-> "setWhiteBalanceMode",
      set_torch_mode |-> "setTorchMode",
      set_zoom_factor |-> "setVideoZoomFactor",
      set_active_video_min_frame_duration |-> "setActiveVideoMinFrameDuration",
      set_active_video_max_frame_duration |-> "setActiveVideoMaxFrameDuration" ]

Setters == DOMAIN SetterCall
DurationSetters == {"set_active_video_min_frame_duration", "set_active_video_max_frame_duration"}

SetterOutcomes ==
    [ supported : BOOLEAN,     \* the capability check answers yes
      lockOk : BOOLEAN,        \* lockForConfiguration succeeds
      raises : BOOLEAN ]       \* the native call raises an Objective-C exception

NoTime == [value |-> U32(0, 0), timescale |-> 0, flags |-> 0, epoch |-> 0]

\* CMTime { value: duration.numerator as i64, timescale: duration.denominator as i32, .. }
cm_time(duration) ==
    [value |-> as_i64(duration.numerator), timescale |-> as_i32(duration.denominator),
     flags |-> 1, epoch |-> 0]

\* lockForConfiguration().map_err(Platform)?; Ok(ConfigLockGuard)
lock_for_configuration(o) ==
    [res |-> IF o.lockOk THEN "Ok" ELSE "Platform", calls |-> <<"lockForConfiguration">>]

\* Drop of ConfigLockGuard
drop_guard == <<"unlockForConfiguration">>

\* what a setter returns, the native calls it made in order, the locks it
\* still holds and the CMTime it passed
SetterResult(res, calls, held, passed) ==
    [res |-> res, calls |-> calls, held |-> held, passed |-> passed]

\* a setter whose guard is not dropped when the native call raises
setter_leaks_on_exception(name, duration, o) ==
    LET check == SetterCheck[name]
        pre == IF check = "none" THEN <<>> ELSE <<check>>
        locked == lock_for_configuration(o)
        passed == IF name \in DurationSetters THEN cm_time(duration) ELSE NoTime
    IN  IF check # "none" /\ ~o.supported THEN SetterResult("Platform", pre, 0, NoTime)
        ELSE IF locked.res # "Ok"
        THEN SetterResult("Platform", pre \o locked.calls, 0, NoTime)
        ELSE IF o.raises
        THEN SetterResult("Platform", pre \o locked.calls \o <<SetterCall[name]>>, 1, passed)
        ELSE SetterResult("Ok", pre \o locked.calls \o <<SetterCall[name]>> \o drop_guard,
                          0, passed)

\* every setter: [capability check, return Err if unsupported;]
\* let _guard = self.lock_for_configuration()?; catch_objc(native call);
\* the guard is dropped when the function is left
setter(name, duration, o) ==
    LET check == SetterCheck[name]
        pre == IF check = "none" THEN <<>> ELSE <<check>>
        locked == lock_for_configuration(o)
        passed == IF name \in DurationSetters THEN cm_time(duration) ELSE NoTime
    IN  IF check # "none" /\ ~o.supported THEN SetterResult("Platform", pre, 0, NoTime)
        ELSE IF locked.res # "Ok"
        THEN SetterResult("Platform", pre \o locked.calls, 0, NoTime)
        ELSE SetterResult(IF o.raises THEN "Platform" ELSE "Ok",
                          pre \o locked.calls \o <<SetterCall[name]>> \o drop_guard,
                          0, passed)

\* u32 values a caller can put in a Ratio: small ones and ones on either side
\* of 2^31
Numerators == {U32(0, 30), U32(32767, 65535), U32(32768, 0), U32(65535, 65535)}
Denominators == {U32(0, 1), U32(0, 1001), U32(65535, 65535)}
Ratios == [numerator : Numerators, denominator : Denominators]
NoRatio == [numerator |-> U32(0, 0), denominator |-> U32(0, 0)]

\* one setter called on a device handle that discover_devices can return
call_setter ==
    /\ Fresh
    /\ mediaTypeVideo
    /\ cameras # <<>>
    /\ \E name \in Setters, o \in SetterOutcomes :
         \E duration \in IF name \in DurationSetters THEN Ratios ELSE {NoRatio} :
            LET r == setter(name, duration, o) IN
            /\ deviceLock' = deviceLock + r.held
            /\ answer' = Answer(name, r.res, [duration |-> duration, o |-> o],
                                 [calls |-> r.calls, passed |-> r.passed])
    /\ UNCHANGED <<sessionRunning, outputDelegate, stopRunningCalls, aborted>>
    /\ UNCHANGED <<streamVars, ctlVars, delegateVars, queueVars, obsVars, deviceVars, frame>>
    /\ UNCHANGED <<mediaTypeVideo, cameras>>

\* open(config) on a device handle that discover_devices can return, over
\* frame rates of the whole u32 range
device_open ==
    /\ Fresh
    /\ mediaTypeVideo
    /\ stream = "none"
    /\ \E i \in 1..Len(cameras), shape \in Configs, frame_rate \in Ratios, o \in OpenOutcomes :
         LET request == [shape EXCEPT !.frame_rate = frame_rate]
             r == new(cameras[i], request, o)
         IN  /\ formats' = cameras[i]
             /\ config' = request
             /\ stream' = IF r.res = "Ok" THEN "open" ELSE "failed"
             /\ config_locked' = (r.res = "Ok")
             /\ deviceLock' = deviceLock + r.lock
             /\ ret' = Return("open", r.res, 0)
             /\ answer' = [op |-> "open", res |-> r.res, arg |-> request,
                            val |-> [calls |-> r.calls, set |-> r.set]]
    /\ UNCHANGED <<invokedSince, startResult>>
    /\ UNCHANGED <<sessionRunning, outputDelegate, stopRunningCalls, aborted>>
    /\ UNCHANGED <<delegate, running, op, caller, cpc, nextCb>>
    /\ UNCHANGED <<delegateVars, queueVars, obsVars>>
    /\ UNCHANGED <<frame, mediaTypeVideo, cameras>>

(* ---------------- conversions, applied on their own ------------------ *)
\* native frame rates, in ten-thousandths of a frame per second: whole rates,
\* NTSC rates and values on either side of half a thousandth
NativeRates == {0, 4, 5, 10004, 149995, 150000, 299700, 299704, 299705, 600000, 2400000}

\* format_to_descriptors on a format with one frame-rate range
call_format_to_descriptors ==
    /\ Fresh
    /\ \E sub_type \in {FourCC_420v, FourCC_jpeg}, lo \in NativeRates, hi \in NativeRates :
         /\ lo <= hi
         /\ LET format == [sub_type |-> sub_type, width |-> 1280, height |-> 720,
                            ranges |-> <<[minFrameRate |-> lo, maxFrameRate |-> hi]>>]
            IN  answer' = Answer("format_to_descriptors", "Ok", format,
                                 format_to_descriptors(format))
    /\ UNCHANGED <<streamSide, mediaTypeVideo, cameras>>

\* media sub types handed to fourcc_to_pixel_format: the six recognised ones,
\* their neighbours and others
FourCCs ==
    {FourCC_420v, FourCC_420f, FourCC_yuvs, FourCC_2vuy, FourCC_BGRA, FourCC_jpeg,
     0, 1, 875704421, 875704423, 875704437, 875704439, 1983000880, 2147483647}

call_fourcc_to_pixel_format ==
    /\ Fresh
    /\ \E fourcc \in FourCCs :
         answer' = Answer("fourcc_to_pixel_format", "Ok", fourcc,
                          fourcc_to_pixel_format(fourcc))
    /\ UNCHANGED <<streamSide, mediaTypeVideo, cameras>>

call_pixel_format_to_fourcc ==
    /\ Fresh
    /\ \E pf \in PixelFormat :
         answer' = Answer("pixel_format_to_fourcc", "Ok", pf, pixel_format_to_fourcc(pf))
    /\ UNCHANGED <<streamSide, mediaTypeVideo, cameras>>

HostNext ==
    \/ discover_devices
    \/ default_device
    \/ call_supported_formats
    \/ call_from_ranges
    \/ call_format_to_descriptors
    \/ call_fourcc_to_pixel_format
    \/ call_pixel_format_to_fourcc
    \/ call_setter
    \/ device_open

DeviceSpec == HostInit /\ [][HostNext]_vars

(* ------------------------------- claims ------------------------------- *)
\* C1: once a successful stop() has returned, no invocation of the callback
\* registered by the preceding start() is in progress, in that state or in any
\* later one, whatever samples the queue of that delegate still runs.
C1_StopQuiesces ==
    \A d \in stopped : dpc[d] # "inCallback" /\ ~mutexHeld[d]

\* a sample run by the delegate after its stop() returned, past the callback
\* step without entering the callback that earlier frames did enter
C1_Witness ==
    \E d \in late :
        /\ d \in invoked
        /\ dpc[d] = "unlock"
        /\ steps[d] = <<"lock", "frame">>

\* what a call on the stream can change besides its own position and result
programState == <<nativeVars, streamVars, delegateVars, queueVars, invoked>>

\* C2: start(cb2) on a Running stream returns AlreadyStarted and changes
\* nothing: running, the stored and the registered delegate, the first
\* callback, the session and the configuration lock are unchanged, and the
\* rejected callback is never registered and never invoked.
C2_AlreadyStartedChangesNothing ==
    /\ [][ (op = "start" /\ running /\ cpc' # cpc) =>
             /\ cpc' = "idle"
             /\ ret' = Return("start", "AlreadyStarted", caller)
             /\ UNCHANGED programState ]_vars
    /\ [](\A k \in Ids : startResult[k] = "AlreadyStarted" =>
             k \notin invoked /\ ~callback[k] /\ delegate # k /\ outputDelegate # k)

\* the second start() has returned AlreadyStarted and the first callback has
\* been entered for a frame since then
C2_Witness ==
    /\ cpc = "idle"
    /\ ret = Return("start", "AlreadyStarted", 0)
    /\ running
    /\ delegate # 0
    /\ delegate \in invokedSince
    /\ dpc[delegate] = "inCallback"

\* C3: stop() on a stream that is not Running returns NotStarted and has no
\* side effect: running, the delegate, the callbacks, the session, the
\* registered delegate and the configuration lock are unchanged and
\* stopRunning is not called.
C3_NotStartedNoSideEffect ==
    [][ (op = "stop" /\ cpc = "stop_check" /\ ~running /\ cpc' # cpc) =>
          /\ cpc' = "idle"
          /\ ret' = Return("stop", "NotStarted", caller)
          /\ UNCHANGED programState ]_vars

\* stop() has returned NotStarted on a stream that was started and stopped before
C3_Witness ==
    /\ cpc = "idle"
    /\ ret = Return("stop", "NotStarted", 0)
    /\ stopped # {}
    /\ stopRunningCalls = 1

\* C4: start() fails with AlreadyStarted exactly when the stream is Running,
\* stop() fails with NotStarted exactly when it is not; start() returns only
\* Ok, AlreadyStarted or Platform and stop() only Ok or NotStarted; Ok from
\* start() leaves the stream Running, Ok from stop() leaves it Configured, an
\* error leaves the state as it was; no such call terminates the process.
C4_StateMachine ==
    [][ /\ (op = "start" /\ cpc = "start_check" /\ cpc' # cpc) =>
              ((cpc' = "idle" /\ ret'.res = "AlreadyStarted") <=> running)
        /\ (op = "stop" /\ cpc = "stop_check" /\ cpc' # cpc) =>
              ((cpc' = "idle" /\ ret'.res = "NotStarted") <=> ~running)
        /\ (op = "start" /\ cpc # "idle" /\ cpc' = "idle") =>
              /\ ret'.op = "start"
              /\ ret'.res \in {"AlreadyStarted", "Platform", "Ok"}
              /\ ret'.res = "AlreadyStarted" => cpc = "start_check"
              /\ ret'.res = "Ok" => ~running /\ running'
              /\ ret'.res # "Ok" => running' = running
        /\ (op = "stop" /\ cpc # "idle" /\ cpc' = "idle") =>
              /\ ret'.op = "stop"
              /\ ret'.res \in {"NotStarted", "Ok"}
              /\ ret'.res = "NotStarted" => cpc = "stop_check"
              /\ ret'.res = "Ok" => running /\ ~running'
              /\ ret'.res # "Ok" => running' = running
        /\ (cpc' # cpc) => ~aborted' ]_vars

\* a stream restarted after a stop: two start() calls returned Ok with a
\* successful stop() of the first in between
C4_Witness ==
    \E j, k \in Ids :
        /\ j < k
        /\ startResult[j] = "Ok" /\ j \in stopped
        /\ startResult[k] = "Ok" /\ delegate = k
        /\ running /\ cpc = "idle"

\* C5 (as claimed): when open() returns an error no stream exists and no
\* device configuration lock taken by the attempt is still held.
C5_FailedOpenReleasesLocks ==
    (ret.op = "open" /\ ret.res # "Ok") =>
        /\ stream = "failed"
        /\ ~config_locked
        /\ deviceLock = 0

\* C6 (as claimed): when start() returns an error nothing of the attempt is
\* left: a failed attempt from Configured leaves running false, and no
\* delegate or callback of the attempt is stored in the stream, registered on
\* the output, or ever invoked.
C6_FailedStartLeavesNothing ==
    (cpc = "idle" /\ ret.op = "start" /\ ret.res # "Ok") =>
        /\ ret.res = "Platform" => ~running
        /\ delegate # nextCb
        /\ outputDelegate # nextCb
        /\ ~callback[nextCb]
        /\ nextCb \notin invoked

IsPrefix(s, t) == Len(s) <= Len(t) /\ \A i \in 1..Len(s) : s[i] = t[i]

C8_OneInvocationAtATime ==
    /\ Cardinality({d \in Ids : dpc[d] = "inCallback"}) <= 1
    /\ \A d \in Ids : mutexHeld[d] <=> dpc[d] = "inCallback"

\* after a restart the new callback runs while the old queue is still inside
\* the delegate method for a late sample
C8_Witness ==
    \E d1, d2 \in Ids :
        /\ d1 < d2
        /\ d1 \in late
        /\ dpc[d1] \in {"locked", "unlock"}
        /\ dpc[d2] = "inCallback"

\* C9: once drop has completed the stream is not running, no callback is in
\* progress or has been entered since, and the device configuration lock is
\* not held (config_locked is false and no lockForConfiguration is left open).
C9_DropReleases ==
    stream = "dropped" =>
        /\ ~running
        /\ ~sessionRunning
        /\ ~config_locked
        /\ deviceLock = 0
        /\ invokedSince = {}
        /\ \A d \in Ids : dpc[d] # "inCallback"

\* a stream dropped while Running whose old queue ran a sample after the drop
C9_Witness ==
    /\ stream = "dropped"
    /\ droppedWhile = "Running"
    /\ \E d \in late : d \in invoked /\ dpc[d] = "unlock"

\* C10: a stop() called from inside the frame callback never returns: it gets
\* as far as locking the callback mutex, which its own thread holds for the
\* invocation that called it, and neither it nor the invocation can go on.
C10_StopInCallbackDeadlocks ==
    /\ ret.by = 0
    /\ \A d \in Ids : caller = d =>
          /\ op = "stop"
          /\ cpc \in {"stop_check", "stop_undelegate", "stop_clear"}
          /\ running /\ delegate = d
          /\ dpc[d] = "inCallback" /\ mutexHeld[d]
          /\ ~ENABLED callback_returns(d)
          /\ ~ENABLED callback_panics(d)
          /\ cpc = "stop_clear" => ~ENABLED stop_clear

\* the delivery thread is inside stop() at the lock of the callback mutex
C10_Witness ==
    /\ caller # 0
    /\ cpc = "stop_clear"
    /\ dpc[caller] = "inCallback"

\* the (pixel_format, size) pairs among the descriptors supported_formats() returns
SupportedPairs(device_formats) ==
    LET descriptors == supported_formats(device_formats)
    IN  { <<descriptors[i].pixel_format, descriptors[i].width, descriptors[i].height>> :
            i \in 1..Len(descriptors) }

\* the pair open() was called with
RequestedPair == <<config.pixel_format, config.width, config.height>>

\* C11 (as claimed): open() with a (pixel_format, size) pair that is not among
\* the pairs supported_formats() reports fails with UnsupportedFormat and with
\* no other kind, whatever the other native steps of open() do.
C11_AbsentPairIsUnsupportedFormat ==
    (ret.op = "open" /\ RequestedPair \notin SupportedPairs(formats)) =>
        ret.res = "UnsupportedFormat"

\* C12 (as claimed): for every (pixel_format, size) pair that
\* supported_formats() reports, open() with that pair does not return
\* UnsupportedFormat.
C12_ReportedPairIsNotUnsupported ==
    (ret.op = "open" /\ RequestedPair \in SupportedPairs(formats)) =>
        ret.res # "UnsupportedFormat"

\* the frame-rate ranges of a sequence of descriptors, one after the other
RECURSIVE ConcatRanges(_)
ConcatRanges(descriptors) ==
    IF descriptors = <<>> THEN <<>>
    ELSE Head(descriptors).frame_rate_ranges \o ConcatRanges(Tail(descriptors))

\* C13: from_ranges on N frame-rate ranges yields ceil(N / 8) descriptors, each
\* with between 1 and 8 ranges and with the pixel_format and size given, and
\* the ranges of the descriptors, taken in output order, are the N ranges in
\* their original order.
C13_FromRangesSplits ==
    answer.op = "from_ranges" =>
        LET given == answer.arg
            N == Len(given.frame_rate_ranges)
            B == MAX_FRAME_RATE_RANGES
            out == answer.val
        IN  /\ Len(out) = (N + B - 1) \div B
            /\ \A i \in 1..Len(out) :
                 /\ Len(out[i].frame_rate_ranges) \in 1..B
                 /\ out[i].pixel_format = given.pixel_format
                 /\ out[i].width = given.width
                 /\ out[i].height = given.height
            /\ ConcatRanges(out) = given.frame_rate_ranges

\* seventeen ranges split into three descriptors, the last holding one range
C13_Witness ==
    /\ answer.op = "from_ranges"
    /\ Len(answer.arg.frame_rate_ranges) = 2 * MAX_FRAME_RATE_RANGES + 1
    /\ Len(answer.val) = 3
    /\ Len(answer.val[3].frame_rate_ranges) = 1

\* the native formats of a catalog whose media sub type is one of the six
\* recognised encodings
Recognized(catalog) ==
    LET known == {FourCC_420v, FourCC_420f, FourCC_yuvs, FourCC_2vuy,
                  FourCC_BGRA, FourCC_jpeg}
        Known(format) == format.sub_type \in known
    IN  SelectSeq(catalog, Known)

C15_NoCameraIsNotAnError ==
    answer.op \in {"discover_devices", "default_device"} =>
        /\ answer.res \in {"Ok", "Platform"}
        /\ answer.res = "Platform" <=> ~mediaTypeVideo
        /\ (mediaTypeVideo /\ cameras = <<>>) => answer.val = <<>>
        /\ (answer.op = "discover_devices" /\ answer.res = "Ok") => answer.val = cameras
        /\ (answer.op = "default_device" /\ answer.res = "Ok" /\ cameras # <<>>) =>
              \E i \in 1..Len(cameras) : answer.val = <<cameras[i]>>

\* default_device() has returned Ok(None) on a host without cameras
C15_Witness ==
    /\ answer = Answer("default_device", "Ok", <<>>, <<>>)
    /\ mediaTypeVideo
    /\ cameras = <<>>

\* C16 (as claimed): the buffer of a frame is locked for the whole of its
\* callback invocation, and no two frame buffers of the stream are locked at
\* the same time: a buffer locked by a delivery of an earlier start() is
\* unlocked before a frame of a later start() is locked.
C16_OneBufferLocked ==
    /\ \A d \in Ids : dpc[d] = "inCallback" => bufLocked[d]
    /\ Cardinality({d \in Ids : bufLocked[d]}) <= 1

\* C17: the configuration lock taken by a successful open() stays held, once,
\* until the first start() that returns Ok, which releases it with the session
\* running; nothing takes it again; the only other release is that of drop on
\* a stream never started; once the stream is dropped the one lock has been
\* released exactly once.
C17_ConfigLockReleasedOnce ==
    /\ [](stream = "open" =>
            /\ deviceLock = (IF config_locked THEN 1 ELSE 0)
            /\ config_locked <=> \A k \in Ids : startResult[k] # "Ok")
    /\ [](stream = "dropped" => deviceLock = 0 /\ ~config_locked)
    /\ [][ stream = "open" =>
             /\ deviceLock' <= deviceLock
             /\ deviceLock' < deviceLock =>
                  /\ deviceLock = 1 /\ deviceLock' = 0
                  /\ \/ /\ op = "start" /\ sessionRunning
                        /\ ret' = Return("start", "Ok", caller) /\ running'
                     \/ /\ op = "drop" /\ stream' = "dropped"
                        /\ \A k \in Ids : startResult[k] # "Ok" ]_vars

\* a stream dropped after a failed start(), a successful one and a stop()
C17_Witness ==
    /\ stream = "dropped"
    /\ \E j, k \in Ids : j < k /\ startResult[j] = "Platform" /\ startResult[k] = "Ok"
    /\ stopped # {}

\* C18 (as claimed): a frame handed to the callback reports the pixel format
\* and size of the StreamConfig the stream was opened with, and its pixel format
\* is the one the native encoding of its buffer stands for.
C18_FrameMatchesConfig ==
    \A d \in Ids : dpc[d] = "inCallback" =>
        /\ frame[d].pixel_format = config.pixel_format
        /\ frame[d].width = config.width
        /\ frame[d].height = config.height
        /\ frame[d].pixel_format = fourcc_to_pixel_format(frame[d].fourcc)

\* C19: open() consumes the device handle: a stream comes only from a handle
\* not opened before, a handle whose open() failed never yields a stream, and
\* a handle is never given back.
C19_DeviceConsumedByOpen ==
    [][ /\ stream # "none" => stream' # "none"
        /\ stream = "failed" => stream' = "failed"
        /\ stream = "dropped" => stream' = "dropped"
        /\ (stream' = "open" /\ stream # "open") => stream = "none"
        /\ (ret' # ret /\ ret'.op = "open") => stream = "none" ]_vars

\* a handle whose open() failed for want of a matching format
C19_Witness ==
    /\ stream = "failed"
    /\ ret = Return("open", "UnsupportedFormat", 0)
    /\ config # NoConfig

\* C20: a stop() called by the controlling thread on a Running stream returns
\* Ok (unless a panicking callback has ended the process), given only that
\* the thread inside stop() runs and that a callback in progress ends: stop()
\* waits for the invocation in flight and for no sample not yet delivered.
C20_StopReturns ==
    (op = "stop" /\ caller = 0 /\ cpc = "stop_check" /\ running)
        ~> ((cpc = "idle" /\ ret = Return("stop", "Ok", 0) /\ ~running) \/ aborted)

\* stop() is waiting for the callback mutex while the callback runs and another
\* sample sits behind it on the queue
C20_Witness ==
    /\ op = "stop" /\ caller = 0
    /\ cpc = "stop_clear"
    /\ delegate # 0
    /\ dpc[delegate] = "inCallback"
    /\ pending[delegate] > 0

\* C21: a callback is entered only on the delegate of the latest start() that
\* went through, and only while that start() has not been followed by a
\* returned stop(): after stop() and a successful start(cb2) every invocation
\* is of cb2, whatever late samples the old delegate is handed on the old queue.
C21_OnlyLatestCallback ==
    /\ \A d \in Ids : dpc[d] = "inCallback" =>
          /\ d = delegate
          /\ d \notin stopped
          /\ \A k \in Ids : k > d => startResult[k] # "Ok"
    /\ [][ \A d \in Ids : (d \in invoked' /\ d \notin invoked) => d = delegate ]_vars

\* the second callback runs while the first delegate, stopped, has taken a late
\* sample past the callback step without entering its callback
C21_Witness ==
    \E d1, d2 \in Ids :
        /\ d1 \in late /\ d1 \in stopped
        /\ steps[d1] = <<"lock", "frame">> /\ dpc[d1] = "unlock"
        /\ d2 = delegate /\ startResult[d2] = "Ok"
        /\ dpc[d2] = "inCallback"

\* the number of times step x occurs in a delivery
Count(x, seq) == Cardinality({i \in 1..Len(seq) : seq[i] = x})

\* C22 (as claimed): buffer locks and unlocks of the delivery path are balanced
\* on every path: a delivery that has ended either locked nothing and invoked
\* nothing, or locked its buffer once and unlocked it once, and no buffer is
\* left locked.
C22_LocksBalanced ==
    /\ leaked = 0
    /\ \A d \in Ids : dpc[d] = "idle" =>
          /\ ~bufLocked[d]
          /\ \/ steps[d] = <<>>
             \/ Count("lock", steps[d]) = 1 /\ Count("unlock", steps[d]) = 1

\* C25 (as claimed): between public operations on a stream a delegate is stored
\* in the stream if and only if the stream is Running.
C25_DelegateIffRunning ==
    (stream = "open" /\ cpc = "idle") => (delegate # 0 <=> running)

\* C26: between public operations config_locked and running are never both
\* true; config_locked is true only while no start() has returned Ok; and once
\* false it stays false for the rest of the stream's life.
C26_LockedOnlyBeforeFirstStart ==
    /\ []((stream = "open" /\ cpc = "idle") =>
            /\ ~(config_locked /\ running)
            /\ config_locked => \A k \in Ids : startResult[k] # "Ok")
    /\ [][ (stream \in {"open", "dropped"} /\ ~config_locked) => ~config_locked' ]_vars

\* a stream started, stopped and started again: running with the lock released
\* by the first start()
C26_Witness ==
    /\ stream = "open" /\ cpc = "idle"
    /\ running /\ ~config_locked /\ deviceLock = 0
    /\ \E j, k \in Ids : j < k /\ startResult[j] = "Ok" /\ startResult[k] = "Ok"

\* the native calls that configure the session or the device
ConfiguringCalls ==
    {"beginConfiguration", "addInput", "addOutput", "commitConfiguration",
     "lockForConfiguration", "setActiveFormat", "setActiveVideoMinFrameDuration",
     "setActiveVideoMaxFrameDuration"}

\* C24: when open() fails with UnsupportedFormat it has made no call that
\* configures the session (beginConfiguration, addInput, addOutput), it has
\* not asked for the device configuration lock and holds none, and it has
\* passed no format and no frame duration to the device.
C24_UnsupportedFormatTouchesNothing ==
    (ret = Return("open", "UnsupportedFormat", 0)) =>
        /\ answer.op = "open"
        /\ \A i \in 1..Len(answer.val.calls) : answer.val.calls[i] \notin ConfiguringCalls
        /\ answer.val.set = NoSettings
        /\ deviceLock = 0
        /\ ~config_locked

\* open() has failed with UnsupportedFormat on a device that has formats, after
\* the device input was made and the catalog read
C24_Witness ==
    /\ ret = Return("open", "UnsupportedFormat", 0)
    /\ formats # <<>>
    /\ answer.op = "open"
    /\ answer.val.calls = CallsToFormats

\* C27: every Ratio that format discovery produces has denominator 1000 and
\* the numerator nearest to fps * 1000 (halves away from zero), and a native
\* range with minFrameRate <= maxFrameRate comes out with min <= max as
\* fractions.
C27_RatiosRoundedAndOrdered ==
    answer.op = "format_to_descriptors" =>
        LET native == answer.arg.ranges
            out == ConcatRanges(answer.val)
        IN  \A i \in 1..Len(out) :
              /\ out[i].min.denominator = 1000 /\ out[i].max.denominator = 1000
              /\ 10 * out[i].min.numerator - 5 <= native[i].minFrameRate
              /\ native[i].minFrameRate < 10 * out[i].min.numerator + 5
              /\ 10 * out[i].max.numerator - 5 <= native[i].maxFrameRate
              /\ native[i].maxFrameRate < 10 * out[i].max.numerator + 5
              /\ native[i].minFrameRate <= native[i].maxFrameRate =>
                    out[i].min.numerator * out[i].max.denominator
                        <= out[i].max.numerator * out[i].min.denominator

\* a range from 29.9704 to 29.9705 frames per second: the first rounds down to
\* 29970/1000, the second up to 29971/1000
C27_Witness ==
    /\ answer.op = "format_to_descriptors"
    /\ Len(answer.val) = 1
    /\ answer.arg.ranges[1] = [minFrameRate |-> 299704, maxFrameRate |-> 299705]
    /\ answer.val[1].frame_rate_ranges[1].min.numerator = 29970
    /\ answer.val[1].frame_rate_ranges[1].max.numerator = 29971

\* C28: fourcc_to_pixel_format(pixel_format_to_fourcc(pf)) is Some(pf) for
\* every PixelFormat, and fourcc_to_pixel_format returns None for every value
\* that is none of the six recognised ones (and a format for each of the six).
C28_FourccRoundTrip ==
    /\ answer.op = "pixel_format_to_fourcc" =>
          fourcc_to_pixel_format(answer.val) = answer.arg
    /\ answer.op = "fourcc_to_pixel_format" =>
          /\ answer.res = "Ok"
          /\ answer.arg \in {FourCC_420v, FourCC_420f, FourCC_yuvs, FourCC_2vuy,
                             FourCC_BGRA, FourCC_jpeg} <=> answer.val \in PixelFormat
          /\ answer.val \notin PixelFormat => answer.val = "None"

\* Uyvy has been converted to '2vuy', which converts back to Uyvy
C28_Witness ==
    /\ answer.op = "pixel_format_to_fourcc"
    /\ answer.arg = "Uyvy"
    /\ answer.val = FourCC_2vuy
    /\ fourcc_to_pixel_format(answer.val) = "Uyvy"

\* C23: every device-control setter takes the configuration lock at most once
\* and releases it exactly once when it got it, also when the native call
\* raised; it takes no lock when the capability check fails, unlocks nothing
\* when the lock could not be taken, and does not hold the lock once it has
\* returned.
C23_SetterLockScoped ==
    answer.op \in Setters =>
        LET c == answer.val.calls
            o == answer.arg.o
            locks == Count("lockForConfiguration", c)
            unlocks == Count("unlockForConfiguration", c)
        IN  /\ locks <= 1
            /\ unlocks = (IF locks = 1 /\ o.lockOk THEN 1 ELSE 0)
            /\ unlocks = 1 => c[Len(c)] = "unlockForConfiguration"
            /\ SetterCheck[answer.op] # "none" /\ ~o.supported => locks = 0
            /\ deviceLock = 0

\* set_torch_mode on a device with a torch got the lock, setTorchMode raised,
\* and the lock was released all the same
C23_Witness ==
    /\ answer.op = "set_torch_mode"
    /\ answer.res = "Platform"
    /\ answer.arg.o = [supported |-> TRUE, lockOk |-> TRUE, raises |-> TRUE]
    /\ answer.val.calls = <<"isTorchModeSupported", "lockForConfiguration",
                            "setTorchMode", "unlockForConfiguration">>
    /\ deviceLock = 0

\* the i32 t is the u32 u, not wrapped
SameNumber(t, u) == t >= 0 /\ t \div 65536 = u.hi /\ t % 65536 = u.lo

\* C29: open() passes the frame duration d/n of the requested frame rate n/d
\* (value = d, timescale = n) as both the minimum and the maximum frame
\* duration, for every u32 n and d without wrap-around; the frame-duration
\* setters pass their Ratio unchanged (value = numerator, timescale =
\* denominator).
C29_FrameDurationExact ==
    /\ answer.op = "open" /\ answer.res = "Ok" =>
          LET set == answer.val.set
              rate == answer.arg.frame_rate
          IN  /\ set.min_frame_duration = set.max_frame_duration
              /\ set.min_frame_duration.value = rate.denominator
              /\ SameNumber(set.min_frame_duration.timescale, rate.numerator)
    /\ answer.op \in DurationSetters /\ answer.val.passed # NoTime =>
          /\ answer.val.passed.value = answer.arg.duration.numerator
          /\ SameNumber(answer.val.passed.timescale, answer.arg.duration.denominator)

==========================================================================
